---- MODULE Spec2Model ----
(***************************************************************************)
(* A model of the_snake.py: the snake, the apple and the poison on a       *)
(* toroidal board, and the game loop of main().                            *)
(*                                                                         *)
(* Cells are pixel coordinates <<x, y>>, multiples of GRID_SIZE, exactly   *)
(* as the program stores them.  The program's board is 640 x 480 pixels    *)
(* (32 x 24 cells); the model keeps GRID_SIZE and all of the arithmetic    *)
(* and scales the board to 2*HalfCols x 2*HalfRows cells.  The number of   *)
(* columns and rows stays even, as in the program, so that the start cell  *)
(* (SCREEN_WIDTH // 2, SCREEN_HEIGHT // 2) is a cell of the grid.          *)
(*                                                                         *)
(* The display surface is the colour of each cell: draw_cell paints one     *)
(* cell, screen.fill all of them.  The one-pixel border of a cell and the   *)
(* caption text are not part of the state; the caption's read of           *)
(* max_length, which updates Snake._max_length, is.                        *)
(***************************************************************************)
EXTENDS Integers, Sequences, FiniteSets, TLC

\* ------------------------------------------------------------------ bounds
\* half the number of columns and of rows of the board
HalfCols == 2
HalfRows == 1
\* the longest snake the model lets grow
MaxLen == 3
\* the most events one call of handle_keys drains
MaxEvents == 2
\* the most samples one relocation draws (recursion depth of randomize_position)
MaxSamples == 3
\* the highest speed the model lets the player reach
MaxSpeed == 12

\* --------------------------------------------------------------- constants
GRID_SIZE == 20
SCREEN_WIDTH == 2 * HalfCols * GRID_SIZE
SCREEN_HEIGHT == 2 * HalfRows * GRID_SIZE
GRID_WIDTH == SCREEN_WIDTH \div GRID_SIZE
GRID_HEIGHT == SCREEN_HEIGHT \div GRID_SIZE

UP == <<0, -1>>
DOWN == <<0, 1>>
LEFT == <<-1, 0>>
RIGHT == <<1, 0>>
Directions == {UP, DOWN, LEFT, RIGHT}

BOARD_BACKGROUND_COLOR == <<189, 188, 183>>
APPLE_COLOR == <<0, 255, 0>>
POISON_COLOR == <<255, 0, 0>>
SNAKE_COLOR == <<0, 0, 255>>

\* Python's None (falsy, equal to no cell and to no direction)
None == <<>>

\* Snake.__init__'s default speed, the speed of the snake main() constructs
SnakeSpeed == 10

\* range(0, SCREEN_WIDTH, GRID_SIZE) x range(0, SCREEN_HEIGHT, GRID_SIZE)
AllCells ==
  {<<x, y>> : x \in {GRID_SIZE * i : i \in 0..(GRID_WIDTH - 1)},
              y \in {GRID_SIZE * j : j \in 0..(GRID_HEIGHT - 1)}}

\* GameObject.__init__: self.position
StartPosition == <<SCREEN_WIDTH \div 2, SCREEN_HEIGHT \div 2>>

\* ------------------------------------------------------------------- state
VARIABLES
  positions,   \* Snake.positions, head first
  direction,   \* Snake.direction
  speed,       \* Snake.speed
  _max_length, \* Snake._max_length
  last,        \* Snake.last
  apple,       \* apple.position
  poison,      \* poison.position
  screen,      \* the display surface: the colour of every cell
  pc,          \* where main() is: "start", "loop" or "exit"
  outcome,     \* the branch the last step of main() took
  relocated    \* the items whose randomize_position the last step called

vars == <<positions, direction, speed, _max_length, last, apple, poison,
          screen, pc, outcome, relocated>>

\* ----------------------------------------------------------------- helpers
\* Python's `x in seq`
contains(seq, x) == \E i \in 1..Len(seq) : seq[i] = x

\* The members of a cell used as a collection: its two coordinates.  A
\* coordinate is an integer, which Python compares unequal to every cell;
\* it is written <<n>> so that the comparison with a cell is defined.
Coordinates(cell) == << <<cell[1]>>, <<cell[2]>> >>

\* -------------------------------------------------------------- GameObject
\* GameObject.draw_cell: the surface after the cell is painted in the colour
\* (body_color or self.body_color, evaluated by the caller)
draw_cell(surface, position, body_color) ==
  [surface EXCEPT ![position] = body_color]

\* screen.fill: the surface painted in one colour
fill(color) == [c \in AllCells |-> color]

\* ------------------------------------------------------------------- Snake
\* Snake.update_direction: the new value of self.direction
update_direction(self_direction, d) ==
  IF d = UP THEN (IF d # DOWN THEN UP ELSE DOWN)
  ELSE IF d = DOWN THEN (IF d # UP THEN DOWN ELSE UP)
  ELSE IF d = LEFT THEN (IF d # RIGHT THEN LEFT ELSE RIGHT)
  ELSE IF d = RIGHT THEN (IF d # LEFT THEN RIGHT ELSE LEFT)
  ELSE self_direction

\* get_head_position without the wrap-around
get_head_position_nowrap(self_positions, d) ==
  IF d # None
  THEN LET current == self_positions[1]
       IN  << current[1] + d[1] * GRID_SIZE, current[2] + d[2] * GRID_SIZE >>
  ELSE self_positions[1]

\* Snake.get_head_position
get_head_position(self_positions, d) ==
  IF d # None
  THEN LET current == self_positions[1]
       IN  << (current[1] + d[1] * GRID_SIZE) % SCREEN_WIDTH,
              (current[2] + d[2] * GRID_SIZE) % SCREEN_HEIGHT >>
  ELSE self_positions[1]

\* move that pops the cell it has just inserted (pop(0))
move_drops_head(self_positions, self_direction) ==
  LET new_head_position == get_head_position(self_positions, self_direction)
      inserted == <<new_head_position>> \o self_positions
  IN  [positions |-> Tail(inserted), last |-> inserted[1]]

\* move that reads the last cell and leaves it on the body
move_keeps_tail(self_positions, self_direction) ==
  LET new_head_position == get_head_position(self_positions, self_direction)
      inserted == <<new_head_position>> \o self_positions
  IN  [positions |-> inserted, last |-> inserted[Len(inserted)]]

\* Snake.move: the new positions and the popped cell
move(self_positions, self_direction) ==
  LET new_head_position == get_head_position(self_positions, self_direction)
      inserted == <<new_head_position>> \o self_positions
  IN  [positions |-> SubSeq(inserted, 1, Len(inserted) - 1),
       last |-> inserted[Len(inserted)]]

\* reset that sets the direction and leaves the body as it is
reset_keeps_body(d) == [positions |-> positions, direction |-> d]

\* Snake.reset: the new positions (direction is set by the caller's argument)
reset(d) == [positions |-> <<StartPosition>>, direction |-> d]

\* max_length that never refreshes the stored maximum
max_length_stale(self_positions, self_max_length) == self_max_length

\* max_length that stores the current length, not the running maximum
max_length_current(self_positions, self_max_length) == Len(self_positions)

\* Snake._max_length (property): the new value of self._max_length
max_length(self_positions, self_max_length) ==
  IF Len(self_positions) > self_max_length
  THEN Len(self_positions)
  ELSE self_max_length

\* change_speed whose guard lets the speed reach 0
change_speed_to_zero(self_speed, value) ==
  IF ~(self_speed + value < 0)
  THEN self_speed + (IF value # 0 THEN value ELSE self_speed)
  ELSE self_speed

\* Snake.change_speed: the new value of self.speed
change_speed(self_speed, value) ==
  IF ~(self_speed + value <= 0)
  THEN self_speed + (IF value # 0 THEN value ELSE self_speed)
  ELSE self_speed

\* the poison branch without its pop
pop_tail_never(self_positions) == self_positions

\* the pop of the poison branch without its guard
pop_tail_unguarded(self_positions) ==
  SubSeq(self_positions, 1, Len(self_positions) - 1)

\* main(), the poison branch: positions after the pop guarded by
\* len(snake.positions) > 1
pop_tail(self_positions) ==
  IF Len(self_positions) > 1
  THEN SubSeq(self_positions, 1, Len(self_positions) - 1)
  ELSE self_positions

\* main(), the apple branch: positions after insert(0, get_head_position())
insert_head(self_positions) ==
  <<get_head_position(self_positions, None)>> \o self_positions

\* Snake.draw: the head is painted in the snake's colour, then self.last, if
\* it is truthy, in the background colour
draw(surface, self_positions, self_last) ==
  LET head_drawn == draw_cell(surface, get_head_position(self_positions, None),
                              SNAKE_COLOR)
  IN  IF self_last # None
      THEN draw_cell(head_drawn, self_last, BOARD_BACKGROUND_COLOR)
      ELSE head_drawn

\* main(), lines 268-269: apple.draw() then poison.draw()
draw_items(surface, apple_position, poison_position) ==
  draw_cell(draw_cell(surface, apple_position, APPLE_COLOR),
            poison_position, POISON_COLOR)

\* main(), the poison branch: the popped cell painted in the background
\* colour, under the guard len(snake.positions) > 1
erase_popped(surface, self_positions) ==
  IF Len(self_positions) > 1
  THEN draw_cell(surface, self_positions[Len(self_positions)],
                 BOARD_BACKGROUND_COLOR)
  ELSE surface

\* ------------------------------------------------------------------- Apple
\* The runs of samples one call of randomize_position can draw and return
\* from: every sample but the last is rejected, the last is accepted.
SampleRuns(used_cells) ==
  LET rejected == {c \in AllCells : contains(used_cells, c)}
      accepted == AllCells \ rejected
  IN  UNION {{pre \o <<c>> : pre \in [1..n -> rejected], c \in accepted} :
             n \in 0..(MaxSamples - 1)}

\* Apple.randomize_position, the recursion on the samples drawn by choice():
\* the value left in self.position and the value returned
RECURSIVE randomize_position(_, _)
randomize_position(samples, used_cells) ==
  LET position == Head(samples)
  IN  IF ~contains(used_cells, position)
      THEN [position |-> position, return |-> position]
      ELSE [position |-> randomize_position(Tail(samples), used_cells).return,
            return |-> position]

\* where one call of randomize_position can leave the item, over every run
Placements(used_cells) ==
  {randomize_position(samples, used_cells).position :
     samples \in SampleRuns(used_cells)}

\* ---------------------------------------------------------- get_used_cells
\* An argument of get_used_cells with the outcome of isinstance(obj[0], tuple)
ListOfCells(cells) == [first_is_tuple |-> TRUE, obj |-> cells]
OneCell(cell) == [first_is_tuple |-> FALSE, obj |-> cell]

RECURSIVE get_used_cells(_)
get_used_cells(args) ==
  IF args = <<>> THEN <<>>
  ELSE LET a == args[Len(args)]
           before == get_used_cells(SubSeq(args, 1, Len(args) - 1))
       IN  IF a.first_is_tuple THEN before \o a.obj ELSE Append(before, a.obj)

\* ------------------------------------------------------------- handle_keys
QUIT == [type |-> "QUIT", key |-> "none"]
KEYUP == [type |-> "KEYUP", key |-> "none"]
KeyDown(k) == [type |-> "KEYDOWN", key |-> k]
Keys == {"K_UP", "K_LEFT", "K_RIGHT", "K_DOWN", "K_q", "K_z", "K_ESCAPE", "K_a"}
Events == {QUIT, KEYUP} \cup {KeyDown(k) : k \in Keys}

\* key_mapping of handle_keys
key_mapping ==
  [k \in {"K_UP", "K_LEFT", "K_RIGHT", "K_DOWN", "K_q", "K_z"} |->
     CASE k = "K_UP" -> [method |-> "update_direction", arg |-> UP]
       [] k = "K_LEFT" -> [method |-> "update_direction", arg |-> LEFT]
       [] k = "K_RIGHT" -> [method |-> "update_direction", arg |-> RIGHT]
       [] k = "K_DOWN" -> [method |-> "update_direction", arg |-> DOWN]
       [] k = "K_q" -> [method |-> "change_speed", arg |-> 1]
       [] k = "K_z" -> [method |-> "change_speed", arg |-> -1]]

\* handle_keys that passes Escape to key_mapping, where it is no key
RECURSIVE handle_keys_ignores_escape(_, _, _)
handle_keys_ignores_escape(events, self_direction, self_speed) ==
  IF events = <<>>
  THEN [direction |-> self_direction, speed |-> self_speed, exit |-> FALSE]
  ELSE LET event == Head(events)
       IN  IF event.type = "QUIT"
           THEN [direction |-> self_direction, speed |-> self_speed, exit |-> TRUE]
           ELSE IF event.type = "KEYDOWN" /\ event.key \in DOMAIN key_mapping
           THEN LET action == key_mapping[event.key]
                IN  IF action.method = "update_direction"
                    THEN handle_keys_ignores_escape(Tail(events),
                           update_direction(self_direction, action.arg),
                           self_speed)
                    ELSE handle_keys_ignores_escape(Tail(events), self_direction,
                           change_speed(self_speed, action.arg))
           ELSE handle_keys_ignores_escape(Tail(events), self_direction,
                  self_speed)

\* handle_keys on the drained events: the snake's direction and speed when
\* it returns, or when SystemExit is raised (exit)
RECURSIVE handle_keys(_, _, _)
handle_keys(events, self_direction, self_speed) ==
  IF events = <<>>
  THEN [direction |-> self_direction, speed |-> self_speed, exit |-> FALSE]
  ELSE LET event == Head(events)
       IN  IF event.type = "QUIT"
           THEN [direction |-> self_direction, speed |-> self_speed, exit |-> TRUE]
           ELSE IF event.type = "KEYDOWN"
           THEN IF event.key = "K_ESCAPE"
                THEN [direction |-> self_direction, speed |-> self_speed,
                      exit |-> TRUE]
                ELSE IF event.key \in DOMAIN key_mapping
                THEN LET action == key_mapping[event.key]
                     IN  IF action.method = "update_direction"
                         THEN handle_keys(Tail(events),
                                update_direction(self_direction, action.arg),
                                self_speed)
                         ELSE handle_keys(Tail(events), self_direction,
                                change_speed(self_speed, action.arg))
                ELSE handle_keys(Tail(events), self_direction, self_speed)
           ELSE handle_keys(Tail(events), self_direction, self_speed)

\* the runs of events one call of handle_keys can drain
EventRuns == UNION {[1..n -> Events] : n \in 0..MaxEvents}

\* the runs without the speed keys: the snake's speed only sets the pause of
\* clock.tick, so the game is explored at the constructor's speed and the
\* speed keys are explored by SpecKeys
SteeringRuns ==
  {events \in EventRuns :
     \A i \in 1..Len(events) : events[i].key \notin {"K_q", "K_z"}}

\* what handle_keys can leave behind, over the given runs of drained events
Drained(runs, self_direction, self_speed) ==
  {handle_keys(events, self_direction, self_speed) : events \in runs}

\* Drained over the steering runs, tabulated once for every direction and speed
Steered ==
  [d \in Directions, s \in 1..MaxSpeed |-> Drained(SteeringRuns, d, s)]

\* -------------------------------------------------------------------- main
\* the state after the constructors of main(): Snake(), Apple(), Poison()
Init ==
  /\ positions = <<StartPosition>>
  /\ direction = RIGHT
  /\ speed = SnakeSpeed
  /\ _max_length = 1
  /\ last = None
  /\ apple = None
  /\ poison = None
  /\ screen = fill(BOARD_BACKGROUND_COLOR)
  /\ pc = "start"
  /\ outcome = "constructed"
  /\ relocated = {}

\* main() up to the loop: the caption reads max_length, the apple is placed
\* with the head cell passed as used_cells, the poison with the used cells
Startup ==
  /\ pc = "start"
  /\ \E a \in Placements(Coordinates(get_head_position(positions, None))) :
       /\ apple' = a
       /\ poison' \in Placements(get_used_cells(<<ListOfCells(positions),
                                                  OneCell(a)>>))
  /\ _max_length' = max_length(positions, _max_length)
  /\ pc' = "loop"
  /\ outcome' = "started"
  /\ relocated' = {"apple", "poison"}
  /\ UNCHANGED <<positions, direction, speed, last, screen>>

\* handle_keys raises SystemExit: the loop ends before the move
TickExit ==
  \E k \in Steered[direction, speed] :
    /\ pc = "loop"
    /\ k.exit
    /\ direction' = k.direction
    /\ speed' = k.speed
    /\ pc' = "exit"
    /\ outcome' = "exit"
    /\ relocated' = {}
    /\ UNCHANGED <<positions, _max_length, last, apple, poison, screen>>

\* one pass of the loop in which the moved head is on positions[1:]
TickReset ==
  \E k \in Steered[direction, speed] :
    /\ pc = "loop"
    /\ ~k.exit
    /\ LET m == move(positions, k.direction)
           snake_head_position == get_head_position(m.positions, None)
           r == reset(RIGHT)
       IN  /\ contains(Tail(m.positions), snake_head_position)
           /\ speed' = k.speed
           /\ last' = m.last
           /\ positions' = r.positions
           /\ direction' = r.direction
           /\ \E a \in Placements(r.positions) :
                /\ apple' = a
                /\ poison' \in Placements(get_used_cells(
                                 <<ListOfCells(r.positions), OneCell(a)>>))
           /\ screen' = draw_items(fill(BOARD_BACKGROUND_COLOR), apple', poison')
           /\ _max_length' = max_length(r.positions, _max_length)
    /\ outcome' = "reset"
    /\ relocated' = {"apple", "poison"}
    /\ UNCHANGED pc

\* the apple branch followed by a relocation of the poison as well
TickApple_relocates_both ==
  \E k \in Steered[direction, speed] :
    /\ pc = "loop"
    /\ ~k.exit
    /\ LET m == move(positions, k.direction)
           snake_head_position == get_head_position(m.positions, None)
           grown == insert_head(m.positions)
       IN  /\ ~contains(Tail(m.positions), snake_head_position)
           /\ snake_head_position = apple
           /\ Len(grown) <= MaxLen
           /\ direction' = k.direction
           /\ speed' = k.speed
           /\ last' = m.last
           /\ positions' = grown
           /\ \E a \in Placements(grown) :
                /\ apple' = a
                /\ poison' \in Placements(get_used_cells(
                                 <<ListOfCells(grown), OneCell(a)>>))
           /\ screen' = draw_items(draw(screen, m.positions, m.last),
                                   apple', poison')
           /\ _max_length' = max_length(grown, _max_length)
    /\ outcome' = "apple"
    /\ relocated' = {"apple", "poison"}
    /\ UNCHANGED pc

\* one pass of the loop in which the moved head is on the apple
TickApple ==
  \E k \in Steered[direction, speed] :
    /\ pc = "loop"
    /\ ~k.exit
    /\ LET m == move(positions, k.direction)
           snake_head_position == get_head_position(m.positions, None)
           grown == insert_head(m.positions)
       IN  /\ ~contains(Tail(m.positions), snake_head_position)
           /\ snake_head_position = apple
           /\ Len(grown) <= MaxLen
           /\ direction' = k.direction
           /\ speed' = k.speed
           /\ last' = m.last
           /\ positions' = grown
           /\ apple' \in Placements(grown)
           /\ screen' = draw_items(draw(screen, m.positions, m.last),
                                   apple', poison)
           /\ _max_length' = max_length(grown, _max_length)
    /\ outcome' = "apple"
    /\ relocated' = {"apple"}
    /\ UNCHANGED <<poison, pc>>

\* one pass of the loop in which the moved head is on the poison
TickPoison ==
  \E k \in Steered[direction, speed] :
    /\ pc = "loop"
    /\ ~k.exit
    /\ LET m == move(positions, k.direction)
           snake_head_position == get_head_position(m.positions, None)
           popped == pop_tail(m.positions)
       IN  /\ ~contains(Tail(m.positions), snake_head_position)
           /\ snake_head_position # apple
           /\ snake_head_position = poison
           /\ direction' = k.direction
           /\ speed' = k.speed
           /\ last' = m.last
           /\ positions' = popped
           /\ poison' \in Placements(popped)
           /\ screen' = draw_items(erase_popped(draw(screen, m.positions, m.last),
                                                m.positions),
                                   apple, poison')
           /\ _max_length' = max_length(popped, _max_length)
    /\ outcome' = "poison"
    /\ relocated' = {"poison"}
    /\ UNCHANGED <<apple, pc>>

\* one pass of the loop in which the moved head is on no body cell and no item
TickMove ==
  \E k \in Steered[direction, speed] :
    /\ pc = "loop"
    /\ ~k.exit
    /\ LET m == move(positions, k.direction)
           snake_head_position == get_head_position(m.positions, None)
       IN  /\ ~contains(Tail(m.positions), snake_head_position)
           /\ snake_head_position # apple
           /\ snake_head_position # poison
           /\ direction' = k.direction
           /\ speed' = k.speed
           /\ last' = m.last
           /\ positions' = m.positions
           /\ screen' = draw_items(draw(screen, m.positions, m.last),
                                   apple, poison)
           /\ _max_length' = max_length(m.positions, _max_length)
    /\ outcome' = "move"
    /\ relocated' = {}
    /\ UNCHANGED <<apple, poison, pc>>

\* one pass of the loop of main(), from handle_keys to clock.tick
Tick == TickExit \/ TickReset \/ TickApple \/ TickPoison \/ TickMove

Next == Startup \/ Tick

Spec == Init /\ [][Next]_vars

\* ---------------------------------------------------------------- SpecKeys
\* handle_keys alone, on the snake as constructed, one drained event a step:
\* every key of key_mapping, the speed keys included
KeyEvent(event) ==
  /\ pc = "start"
  /\ LET k == handle_keys(<<event>>, direction, speed)
     IN  /\ k.speed <= MaxSpeed
         /\ direction' = k.direction
         /\ speed' = k.speed
         /\ pc' = IF k.exit THEN "exit" ELSE pc
  /\ outcome' = IF event.type = "KEYDOWN" THEN event.key ELSE event.type
  /\ UNCHANGED <<positions, _max_length, last, apple, poison, screen,
                 relocated>>

NextKeys == \E event \in Events : KeyEvent(event)

SpecKeys == Init /\ [][NextKeys]_vars

\* ------------------------------------------------------------ SpecRelocate
\* randomize_position alone: one call on an apple as constructed, for each
\* collection of used cells

\* the cells of the board, row by row
CellList ==
  [i \in 1..(GRID_WIDTH * GRID_HEIGHT) |->
     <<GRID_SIZE * ((i - 1) % GRID_WIDTH), GRID_SIZE * ((i - 1) \div GRID_WIDTH)>>]

\* the collections of used cells the call is explored on: every run of
\* consecutive cells of the board, from no cell to all of them
UsedCells ==
  {SubSeq(CellList, i, j) : i \in 1..Len(CellList), j \in 0..Len(CellList)}

\* Apple() with the argument that will be passed to randomize_position
InitRelocate ==
  /\ positions \in UsedCells
  /\ direction = RIGHT
  /\ speed = SnakeSpeed
  /\ _max_length = 1
  /\ last = None
  /\ apple = None
  /\ poison = None
  /\ screen = fill(BOARD_BACKGROUND_COLOR)
  /\ pc = "start"
  /\ outcome = "constructed"
  /\ relocated = {}

\* randomize_position(used_cells) when some cell is free: after finitely many
\* rejected samples one is accepted and the call returns
RelocateReturns ==
  /\ outcome = "constructed"
  /\ \E c \in AllCells : ~contains(positions, c)
  /\ apple' \in Placements(positions)
  /\ outcome' = "returned"
  /\ relocated' = {"apple"}
  /\ UNCHANGED <<positions, direction, speed, _max_length, last, poison,
                 screen, pc>>

\* randomize_position(used_cells) when every cell is used: every sample is
\* rejected and makes one more nested call, self.position is never assigned,
\* and Python ends the nesting with RecursionError, which nothing catches
RelocateRaises ==
  /\ outcome = "constructed"
  /\ \A c \in AllCells : contains(positions, c)
  /\ outcome' = "RecursionError"
  /\ pc' = "exit"
  /\ relocated' = {"apple"}
  /\ UNCHANGED <<positions, direction, speed, _max_length, last, apple, poison,
                 screen>>

NextRelocate == RelocateReturns \/ RelocateRaises

SpecRelocate == InitRelocate /\ [][NextRelocate]_vars

\* ------------------------------------------------------------------ claims
\* the keys that steer
DirectionKeys == {"K_UP", "K_LEFT", "K_RIGHT", "K_DOWN"}

\* the exact reverse of a direction
opposite(d) == <<-d[1], -d[2]>>

Distinct(seq) ==
  \A i, j \in 1..Len(seq) : i # j => seq[i] # seq[j]

\* C1 (SpecKeys). Reversal filter: a request for the exact opposite of the
\* current direction leaves the direction as it is, and any other request
\* sets the direction to the requested one.
C1_ReversalFilter ==
  [][\A key \in DirectionKeys :
       outcome' = key =>
         direction' = IF key_mapping[key].arg = opposite(direction)
                      THEN direction
                      ELSE key_mapping[key].arg]_vars

\* C2. Item never on the snake: right after a step that relocated an item
\* (start-up, eaten, reset), that item's cell is no cell of snake.positions.
C2_ItemNeverOnSnake ==
  /\ "apple" \in relocated => ~contains(positions, apple)
  /\ "poison" \in relocated => ~contains(positions, poison)

\* C3. Items never coincide: once the items are placed, apple.position
\* differs from poison.position in every state.
C3_ItemsNeverCoincide ==
  pc # "start" => apple # poison

\* C4. No self-overlap: at the end of every tick that did not reset (move,
\* apple eaten, poison eaten) the cells of snake.positions are pairwise
\* distinct.
C4_NoSelfOverlap ==
  outcome \in {"move", "apple", "poison"} => Distinct(positions)

\* C5. Growth on eating: on a tick whose new head is the apple's cell, the
\* body after the tick is the new head followed by the whole body of before.
C5_GrowthOnEating ==
  [][outcome' = "apple" =>
       positions' = <<get_head_position(positions, direction')>> \o positions]_vars

\* C6. Reset cycle: a tick that detects a self-collision ends with a snake
\* of exactly one cell, the start cell, heading RIGHT, with both items
\* relocated onto cells of the grid and the stored maximum not lowered.
C6_ResetCycle ==
  [][outcome' = "reset" =>
       /\ positions' = <<StartPosition>>
       /\ direction' = RIGHT
       /\ relocated' = {"apple", "poison"}
       /\ apple' \in AllCells /\ poison' \in AllCells
       /\ _max_length' >= _max_length]_vars

\* a reset has happened, after the snake had grown
C6_Witness ==
  outcome = "reset" /\ _max_length > 1 /\ Len(positions) = 1

\* C7. Max-length monotonicity: no step lowers the stored maximum length,
\* and a reset leaves it as it was rather than setting it back to 1.
C7_MaxLengthMonotone ==
  [][/\ _max_length' >= _max_length
     /\ outcome' = "reset" => _max_length' = _max_length /\ _max_length' > 1]_vars

\* the snake is shorter than its stored maximum: after a shrink, and after
\* a reset
C7_Witness ==
  \/ outcome = "poison" /\ Len(positions) < _max_length
  \/ outcome = "reset" /\ Len(positions) < _max_length /\ _max_length = MaxLen

\* C8. Shrink floor: the snake has at least one cell in every state, and a
\* tick in which a snake of length 1 enters the poison leaves it at length 1.
C8_ShrinkFloor ==
  /\ [](Len(positions) >= 1)
  /\ [][outcome' = "poison" /\ Len(positions) = 1 => Len(positions') = 1]_vars

\* a snake that never grew has entered the poison
C8_Witness ==
  outcome = "poison" /\ _max_length = 1 /\ Len(positions) = 1

\* C9. Wrap invariant: from every head cell and in each of the four
\* directions the next head is a cell of the grid; leaving one edge enters
\* at the opposite edge; every cell of snake.positions is a cell of the grid.
C9_WrapInvariant ==
  /\ \A i \in 1..Len(positions) : positions[i] \in AllCells
  /\ \A d \in Directions : get_head_position(positions, d) \in AllCells
  /\ LET head == positions[1]
     IN  /\ head[1] = SCREEN_WIDTH - GRID_SIZE =>
               get_head_position(positions, RIGHT) = <<0, head[2]>>
         /\ head[1] = 0 =>
               get_head_position(positions, LEFT) =
                 <<SCREEN_WIDTH - GRID_SIZE, head[2]>>
         /\ head[2] = SCREEN_HEIGHT - GRID_SIZE =>
               get_head_position(positions, DOWN) = <<head[1], 0>>
         /\ head[2] = 0 =>
               get_head_position(positions, UP) =
                 <<head[1], SCREEN_HEIGHT - GRID_SIZE>>

\* the snake has left the board on the right and entered on the left
C9_Witness ==
  /\ outcome = "move"
  /\ direction = RIGHT
  /\ Len(positions) >= 2
  /\ positions[1][1] = 0
  /\ positions[2][1] = SCREEN_WIDTH - GRID_SIZE

\* C10 (SpecKeys). Speed positivity: from speed 10, after any sequence of
\* speed requests the speed is an integer >= 1; a request that would make it
\* <= 0 leaves it unchanged and every other request changes it by exactly
\* the requested delta (+1 for Q, -1 for Z).
C10_SpeedPositive ==
  /\ [](speed \in Nat /\ speed >= 1)
  /\ [][/\ outcome' = "K_q" =>
             speed' = IF speed + 1 <= 0 THEN speed ELSE speed + 1
        /\ outcome' = "K_z" =>
             speed' = IF speed - 1 <= 0 THEN speed ELSE speed - 1
        /\ outcome' \notin {"K_q", "K_z"} => speed' = speed]_vars

\* Z was pressed at the lowest speed
C10_Witness ==
  outcome = "K_z" /\ speed = 1

\* C11: whatever direction requests one tick drains, the direction the snake
\* has when it moves is never the reverse of the direction it had when the
\* tick began.  (On the ticks that move without a reset the direction of the
\* move is the direction the tick leaves behind.)
C11_NoReversalInTick ==
  [][outcome' \in {"move", "apple", "poison"}
       => direction' # opposite(direction)]_vars

\* C12: when the used cells passed to a relocation cover every cell of the
\* board, the relocation ends in the named outcome NoFreeCellError and the
\* process goes on; it neither runs without end nor crashes.
C12_BoardFullError ==
  (relocated = {"apple"} /\ \A c \in AllCells : contains(positions, c))
    => (outcome = "NoFreeCellError" /\ pc # "exit")

\* the events that end the game: Quit, and Escape pressed
IsSignal(event) ==
  event.type = "QUIT" \/ (event.type = "KEYDOWN" /\ event.key = "K_ESCAPE")

\* handle_keys stops at the first signal of a run: it raises, and the snake is
\* as the events before the signal left it, whatever follows the signal
StopsAtSignal ==
  \A d \in Directions, s \in 1..MaxSpeed, events \in EventRuns :
    LET k == handle_keys(events, d, s)
    IN  /\ k.exit <=> \E i \in 1..Len(events) : IsSignal(events[i])
        /\ \A i \in 1..Len(events) :
             (IsSignal(events[i]) /\ \A j \in 1..(i - 1) : ~IsSignal(events[j]))
               => LET before == handle_keys(SubSeq(events, 1, i - 1), d, s)
                  IN  /\ ~before.exit
                      /\ k.direction = before.direction
                      /\ k.speed = before.speed

\* C13: once a Quit event or an Escape key-down is drained the loop stops in
\* that tick: the events after the signal are not applied, the snake does not
\* move, no collision is handled, no item is relocated, and no tick follows.
C13_ExitStopsTick ==
  /\ [](pc = "loop" => StopsAtSignal)
  /\ [][outcome' = "exit"
          => /\ \E k \in Steered[direction, speed] :
                  k.exit /\ direction' = k.direction /\ speed' = k.speed
             /\ pc' = "exit"
             /\ relocated' = {}
             /\ UNCHANGED <<positions, last, _max_length, apple, poison>>]_vars
  /\ [][pc # "exit"]_vars

C13_Witness ==
  pc = "exit" /\ outcome = "exit" /\ direction = UP /\ Len(positions) = 2

\* seq without its last element (Python's seq[:-1])
Front(seq) == SubSeq(seq, 1, Len(seq) - 1)

C15_RelocationAvoidsUsedCells ==
  /\ [](outcome = "returned"
          => apple \in AllCells /\ ~contains(positions, apple))
  /\ [][outcome' = "returned" => positions' = positions]_vars

\* C16: on a tick in which the head enters the poison's cell (no
\* self-collision, not the apple's cell) the snake ends one cell shorter than
\* it began if it began longer than 1, and stays at length 1 if it began at 1;
\* the head is on the cell the poison was on, and the poison was relocated.
C16_PoisonShrinks ==
  [][outcome' = "poison"
       => /\ Len(positions') = IF Len(positions) > 1 THEN Len(positions) - 1
                                                     ELSE 1
          /\ positions'[1] = poison
          /\ positions'[1] = get_head_position(positions, direction')
          /\ positions'[1] # apple
          /\ "poison" \in relocated'
          /\ poison' \in AllCells]_vars

\* a snake that reached length MaxLen is at length MaxLen - 1 after the poison
C16_Witness ==
  /\ outcome = "poison"
  /\ relocated = {"poison"}
  /\ _max_length = MaxLen
  /\ Len(positions) = MaxLen - 1

\* C17: a tick with no self-collision and no item on the cell entered slides
\* the snake: the new head, then the body the tick began with less its last
\* cell; the length is unchanged.
C17_OrdinaryAdvance ==
  [][outcome' = "move"
       => /\ positions' = <<get_head_position(positions, direction')>>
                            \o SubSeq(positions, 1, Len(positions) - 1)
          /\ Len(positions') = Len(positions)
          /\ last' = positions[Len(positions)]]_vars

\* the snake as constructed, one cell at the start cell heading RIGHT, has
\* moved one cell to the right
C17_Witness ==
  /\ outcome = "move"
  /\ direction = RIGHT
  /\ last = StartPosition
  /\ positions = <<<<StartPosition[1] + GRID_SIZE, StartPosition[2]>>>>
  /\ _max_length = 1

\* C18: within one tick the cell of an item changes only if the head entered
\* that item's cell or the tick reset the snake: a plain move leaves both
\* items where they were, an eaten apple leaves the poison, an eaten poison
\* leaves the apple.
C18_ItemFrame ==
  [][pc = "loop"
       => /\ apple' # apple => (outcome' = "reset" \/ positions'[1] = apple)
          /\ poison' # poison => (outcome' = "reset" \/ positions'[1] = poison)
          /\ outcome' = "move" => (apple' = apple /\ poison' = poison)
          /\ outcome' = "apple" => poison' = poison
          /\ outcome' = "poison" => apple' = apple
          /\ relocated' = CASE outcome' = "reset" -> {"apple", "poison"}
                            [] outcome' = "apple" -> {"apple"}
                            [] outcome' = "poison" -> {"poison"}
                            [] OTHER -> {}]_vars

\* the apple was eaten and is on another cell; the poison is on the board
C18_Witness ==
  /\ outcome = "apple"
  /\ relocated = {"apple"}
  /\ apple # positions[1]
  /\ poison \in AllCells
  /\ poison # apple

\* the greater of two numbers
Greater(a, b) == IF a >= b THEN a ELSE b

\* C19: at every caption update the reported max_length is at least the
\* snake's length and is the greatest length the snake has had at the end of
\* any tick so far, counted from 1: it is 1 when the game is constructed, and
\* every caption update leaves the greater of the value before it and the
\* length at the end of the tick.
C19_ScoreAccuracy ==
  /\ [](pc = "start" => _max_length = 1)
  /\ [](pc = "loop" => _max_length >= Len(positions))
  /\ [][pc' = "loop"
          => _max_length' = Greater(_max_length, Len(positions'))]_vars

\* the caption reports a length reached in an earlier tick
C19_Witness ==
  /\ pc = "loop"
  /\ outcome = "move"
  /\ _max_length = MaxLen
  /\ Len(positions) = 1

\* the cells of the surface painted in the snake's colour
SnakeColoured == {c \in AllCells : screen[c] = SNAKE_COLOR}

\* the cells of a list
Cells(seq) == {seq[i] : i \in 1..Len(seq)}

\* C20: at the end of every tick the cells painted in the snake's colour are
\* exactly the cells of snake.positions; a cell erased as the vacated tail
\* (snake.last, or the cell popped by the poison branch) is no longer a cell
\* of snake.positions; after the full clear of a reset the one-cell body is
\* painted.
C20_ScreenShowsBody ==
  /\ []((pc = "loop" /\ outcome # "started")
          => SnakeColoured = Cells(positions))
  /\ [](outcome = "reset" => screen[positions[1]] = SNAKE_COLOR)
  /\ [][outcome' \in {"move", "apple", "poison"}
          => ~contains(positions', last')]_vars
  /\ [][(outcome' = "poison" /\ Len(positions) > 1)
          => ~contains(positions', positions[Len(positions) - 1])]_vars
====
